---- MODULE Spec2Model ----
(***************************************************************************)
(* Workflow orchestration core of sop-agentic-workflow (src/graph.py):     *)
(* the two-node LangGraph loop                                             *)
(*   intelligent_step_selection --> llm_tool_execution --> (back)          *)
(* run under a recursion limit.                                            *)
(*                                                                         *)
(* Texts (the SOP document, a step, the oracle's next_step) are sequences  *)
(* of tokens; the tokens of a document are letters, the blank " " and the  *)
(* line break "\n".  The oracle (ollama client.generate) is an input: each *)
(* call draws one response from the set its configuration allows.          *)
(*                                                                         *)
(* Next to it: the collaborator API of src/backend.py with its in-memory   *)
(* stores, and the step resolver of the similarity-based variant.          *)
(***************************************************************************)
EXTENDS Integers, Sequences, FiniteSets, TLC

VARIABLES
    sop_workflow,      \* State["sop_workflow"]: the raw SOP document
    execution_memory,  \* State["execution_memory"]
    available_steps,   \* State["available_steps"]
    completed_steps,   \* State["completed_steps"]
    current_step,      \* State["current_step"] (<<>> while the key is absent)
    workflow_complete, \* State["workflow_complete"]
    tool_results,      \* State["tool_results"]
    user_context,      \* State["user_context"]
    global_action_repository, \* State["global_action_repository"]
    recursion_limit,   \* config["recursion_limit"] handed to chain.stream
    step,              \* number of node executions (super-steps) so far
    pc,                \* node due next: "select", "execute" or "end"
    outcome,           \* "running", "Complete", "IterationBoundExceeded" or
                       \* "Cancelled"
    report,            \* what main() prints when the stream ends
    oracle,            \* configuration of the oracle for this run
    last_response,     \* history: the oracle's answer in the latest selection
    selected,          \* history: the steps handed to llm_tool_execution
    proposed,          \* history: the tool_calls of the latest execution
    invoked,           \* history: the calls whose handler the latest
                       \* execution entered, in the order it entered them
    REQUESTS_DB,       \* backend.py: the requests by id
    TICKET_QUEUE,      \* backend.py: the tickets created
    NOTIFICATIONS_LOG, \* backend.py: the notifications sent
    backend_response,  \* the latest API operation and what it returned
    backend_calls,     \* history: number of API operations served
    similarities,      \* resolver: the score of each repository entry
    resolved           \* resolver: the result of resolve

workflowVars ==
    <<sop_workflow, execution_memory, available_steps, completed_steps,
      current_step, workflow_complete, tool_results, user_context,
      global_action_repository, recursion_limit, step, pc, outcome, report,
      oracle, last_response, selected, proposed, invoked>>

backendVars ==
    <<REQUESTS_DB, TICKET_QUEUE, NOTIFICATIONS_LOG, backend_response,
      backend_calls>>

resolverVars == <<similarities, resolved>>

vars == <<workflowVars, backendVars, resolverVars>>

(***************************************************************************)
(* Bounds of the exploration                                               *)
(***************************************************************************)
MaxDocLen == 3
MaxRecursionLimit == 5
MaxToolCalls == 1
MaxPlannedCalls == 2
MaxBackendCalls == 3
MaxAgeOver == 1
MaxRepoLen == 3
MaxScore == 2

(***************************************************************************)
(* Generic helpers                                                         *)
(***************************************************************************)
Range(s) == {s[i] : i \in 1..Len(s)}

SeqsUpTo(S, n) == UNION {[1..k -> S] : k \in 0..n}

\* [x for x in s if x not in excluded], order kept
RECURSIVE Without(_, _)
Without(s, excluded) ==
    IF s = <<>> THEN <<>>
    ELSE IF Head(s) \in excluded THEN Without(Tail(s), excluded)
         ELSE <<Head(s)>> \o Without(Tail(s), excluded)

\* s[-n:] of Python
LastN(s, n) == IF Len(s) <= n THEN s ELSE SubSeq(s, Len(s) - n + 1, Len(s))

(***************************************************************************)
(* Parsing of the SOP document                                             *)
(***************************************************************************)
NL == "\n"
SP == " "
Letters == {"a", "b"}
DocTokens == Letters \cup {SP, NL}

\* str.split("\n")
RECURSIVE SplitLines(_)
SplitLines(doc) ==
    IF NL \notin Range(doc) THEN <<doc>>
    ELSE LET i == CHOOSE k \in 1..Len(doc) :
                      doc[k] = NL /\ \A j \in 1..(k - 1) : doc[j] # NL
         IN  <<SubSeq(doc, 1, i - 1)>> \o SplitLines(SubSeq(doc, i + 1, Len(doc)))

RECURSIVE LStrip(_)
LStrip(s) == IF s # <<>> /\ Head(s) = SP THEN LStrip(Tail(s)) ELSE s

RECURSIVE RStrip(_)
RStrip(s) ==
    IF s # <<>> /\ s[Len(s)] = SP THEN RStrip(SubSeq(s, 1, Len(s) - 1)) ELSE s

\* str.strip()
Strip(s) == RStrip(LStrip(s))

RECURSIVE StripNonEmpty(_)
StripNonEmpty(lines) ==
    IF lines = <<>> THEN <<>>
    ELSE IF Strip(Head(lines)) # <<>>
         THEN <<Strip(Head(lines))>> \o StripNonEmpty(Tail(lines))
         ELSE StripNonEmpty(Tail(lines))

\* variant of ParseSteps that keeps the lines as they are written:
\* [s for s in sop_workflow.split("\n") if s.strip()]
ParseStepsUntrimmed(doc) ==
    SelectSeq(SplitLines(doc), LAMBDA line : Strip(line) # <<>>)

\* [s.strip() for s in sop_workflow.split("\n") if s.strip()]
ParseSteps(doc) == StripNonEmpty(SplitLines(doc))

(***************************************************************************)
(* The oracle in step selection                                            *)
(***************************************************************************)
WORKFLOW_COMPLETE == <<"WORKFLOW_COMPLETE">>
UnknownStep == <<"x">>      \* a text that is no line of any document
NoText == <<>>              \* "" : result.get("next_step", "") without the key

\* kinds of answer for which client.generate / json.loads / result.get raise
RaisingKinds == {"raise", "malformed", "non_object"}

\* "any": every answer in both nodes; "always_malformed", "always_raise": the
\* one failure in both nodes; "tool_planner": the selection call fails (the
\* steps run in SOP order) and the execution call plans tool invocations;
\* "api_planner": the same with the calls that read and write the stores of
\* the LLMTools instance
OracleModes == {"any", "always_malformed", "always_raise"}

NotConsulted == [kind |-> "not_consulted", next_step |-> NoText]

Raising(k) == [kind |-> k, next_step |-> NoText]

SelectionResponses(mode, steps) ==
    CASE mode = "always_malformed" -> {Raising("malformed")}
      [] mode = "always_raise"     -> {Raising("raise")}
      [] mode = "tool_planner"     -> {Raising("raise")}
      [] mode = "api_planner"      -> {Raising("raise")}
      [] OTHER ->
            {Raising(k) : k \in RaisingKinds}
            \cup {[kind |-> "object", next_step |-> s] :
                    s \in Range(steps) \cup {WORKFLOW_COMPLETE, UnknownStep, NoText}}

(***************************************************************************)
(* LLMTools: the tool handlers                                             *)
(***************************************************************************)
\* the tool name of a proposed call that has no "tool_name" key:
\* tool_call.get("tool_name") is None for it
NoToolName == "None"

ToolNames == {"ask_user_input", "show_message_to_user", "api_call",
              "create_ticket", "send_notification", "unknown_tool"}

\* The one text a call's parameters carry (its prompt, message, endpoint,
\* title or recipient).  NotADict is a "parameters" value that is no mapping:
\* the handler's params.get raises on it.
NotADict == "<not a dict>"
ParamTexts == {"request id", "email", "/requests/101", "/requests/999",
               "/tickets", "hello"}

KnownRequests == {"/requests/101"}   \* endpoints naming a key of mock_requests_db

\* mock_requests_db, by request_id, status and age_hours
MockRequestsDb ==
    (101 :> [request_id |-> 101, status |-> "approved", age_hours |-> 10])
    @@ (102 :> [request_id |-> 102, status |-> "in-progress", age_hours |-> 50])
    @@ (103 :> [request_id |-> 103, status |-> "disapproved", age_hours |-> 80])
    @@ (104 :> [request_id |-> 104, status |-> "disapproved", age_hours |-> 100])

\* int(match.group(1)) of re.search(r'/requests/(\d+)', endpoint) for the
\* endpoints of the explored calls
RequestIdOf(endpoint) ==
    CASE endpoint = "/requests/101" -> 101
      [] endpoint = "/requests/999" -> 999

NewTools == [mock_tickets |-> <<>>, mock_notifications |-> <<>>]

\* _generate_mock_user_response: the texts are such that the keyword test
\* of the code is decided by the text itself
MockUserResponse(prompt) ==
    CASE prompt = "request id" -> "102"
      [] prompt = "email"      -> "user@company.com"
      [] OTHER                 -> "Please proceed with the next step"

AskUserInput(p) ==
    [success |-> TRUE, user_response |-> MockUserResponse(p), prompt_shown |-> p]

ShowMessageToUser(p) ==
    [success |-> TRUE, message_displayed |-> p, message_type |-> "info"]

\* _api_call, _mock_requests_api and _mock_tickets_api
ApiCall(tools, p, method) ==
    IF p \in {"/requests/101", "/requests/999"}
    THEN IF method = "GET"
         THEN IF p \in KnownRequests
              THEN [success |-> TRUE, request |-> MockRequestsDb[RequestIdOf(p)]]
              ELSE [success |-> FALSE, error |-> "Request not found"]
         ELSE [error |-> "Unsupported API operation"]
    ELSE IF p = "/tickets"
         THEN IF method = "GET"
              THEN [success |-> TRUE, tickets |-> tools.mock_tickets]
              ELSE [error |-> "Unsupported tickets API operation"]
         ELSE [error |-> "Unknown API endpoint", endpoint |-> p]

NewTicket(tools, p) ==
    [ticket_id |-> Len(tools.mock_tickets) + 1, title |-> p, status |-> "open"]

NewNotification(tools, p) ==
    [id |-> Len(tools.mock_notifications) + 1, recipient |-> p, status |-> "sent"]

\* execute_tool: the result of one call; only reached when the handler does
\* not raise
ToolResult(tools, name, p, method) ==
    CASE name = "ask_user_input"       -> AskUserInput(p)
      [] name = "show_message_to_user" -> ShowMessageToUser(p)
      [] name = "api_call"             -> ApiCall(tools, p, method)
      [] name = "create_ticket"        ->
            [success |-> TRUE, ticket |-> NewTicket(tools, p)]
      [] name = "send_notification"    ->
            [success |-> TRUE, notification |-> NewNotification(tools, p)]
      [] OTHER                         -> [error |-> "Unknown tool"]

\* variant of ToolsAfter in which a call to the tickets endpoint files a ticket
ToolsAfterApiCreates(tools, name, p) ==
    CASE name = "create_ticket" \/ (name = "api_call" /\ p = "/tickets") ->
            [tools EXCEPT !.mock_tickets = Append(@, NewTicket(tools, p))]
      [] name = "send_notification" ->
            [tools EXCEPT !.mock_notifications = Append(@, NewNotification(tools, p))]
      [] OTHER -> tools

\* the handler's effect on the LLMTools instance
ToolsAfter(tools, name, p) ==
    CASE name = "create_ticket" ->
            [tools EXCEPT !.mock_tickets = Append(@, NewTicket(tools, p))]
      [] name = "send_notification" ->
            [tools EXCEPT !.mock_notifications = Append(@, NewNotification(tools, p))]
      [] OTHER -> tools

\* every handler starts with params.get(...), which raises on a non-mapping;
\* the unknown-tool branch never touches the parameters
HandlerRaises(name, p) == p = NotADict /\ name \notin {"unknown_tool", NoToolName}

\* variant of ContextAfter that never updates the context
ContextAfterNever(ctx, name, result) == ctx

\* user_context.update(...) after a successful ask_user_input
ContextAfter(ctx, name, result) ==
    IF name = "ask_user_input" /\ result.success
    THEN [last_user_input |-> result.user_response,
          last_prompt     |-> result.prompt_shown]
    ELSE ctx

\* the state of the for loop over tool_calls before its first iteration
StartOfLoop(ctx) ==
    [raised |-> FALSE, tools |-> NewTools, user_context |-> ctx,
     results |-> <<>>, invoked |-> <<>>]

\* variant of RunToolCalls that leaves the loop after the first result that
\* carries an error
RECURSIVE RunToolCallsUntilError(_, _)
RunToolCallsUntilError(calls, acc) ==
    IF calls = <<>> \/ acc.raised THEN acc
    ELSE LET c == Head(calls) IN
         IF HandlerRaises(c.tool_name, c.parameters)
         THEN [acc EXCEPT !.raised = TRUE, !.invoked = Append(@, c)]
         ELSE LET r == ToolResult(acc.tools, c.tool_name, c.parameters, c.method)
                  next == [raised       |-> FALSE,
                           tools        |-> ToolsAfter(acc.tools, c.tool_name, c.parameters),
                           user_context |-> ContextAfter(acc.user_context, c.tool_name, r),
                           results      |-> Append(acc.results,
                                               [tool_name  |-> c.tool_name,
                                                parameters |-> c.parameters,
                                                result     |-> r]),
                           invoked      |-> Append(acc.invoked, c)]
              IN IF "error" \in DOMAIN r THEN next
                 ELSE RunToolCallsUntilError(Tail(calls), next)

\* the for loop over tool_calls (lines 569-586); it ends at the first handler
\* that raises
RECURSIVE RunToolCalls(_, _)
RunToolCalls(calls, acc) ==
    IF calls = <<>> \/ acc.raised THEN acc
    ELSE LET c == Head(calls) IN
         IF HandlerRaises(c.tool_name, c.parameters)
         THEN [acc EXCEPT !.raised = TRUE, !.invoked = Append(@, c)]
         ELSE LET r == ToolResult(acc.tools, c.tool_name, c.parameters, c.method) IN
              RunToolCalls(Tail(calls),
                  [raised       |-> FALSE,
                   tools        |-> ToolsAfter(acc.tools, c.tool_name, c.parameters),
                   user_context |-> ContextAfter(acc.user_context, c.tool_name, r),
                   results      |-> Append(acc.results,
                                       [tool_name  |-> c.tool_name,
                                        parameters |-> c.parameters,
                                        result     |-> r]),
                   invoked      |-> Append(acc.invoked, c)])

(***************************************************************************)
(* The oracle in tool execution                                            *)
(***************************************************************************)
\* tool names and parameters the oracle proposes in the explored runs: a call
\* that succeeds and changes user_context, and a call whose handler raises
ProposedTools == {"ask_user_input"}
ProposedParams == {"request id", NotADict}

ToolCalls == [tool_name : ProposedTools, parameters : ProposedParams,
              method : {"GET"}]

Call(name, p, method) == [tool_name |-> name, parameters |-> p, method |-> method]

\* the calls of the "tool_planner" oracle: one that succeeds or raises for
\* ask_user_input, the calls that fail without raising, a call without a
\* tool name, and a handler with a side effect on the LLMTools instance
PlannedCalls ==
    {Call("ask_user_input", "request id", "GET"),
     Call("ask_user_input", "email", "GET"),
     Call("ask_user_input", NotADict, "GET"),
     Call("api_call", "/requests/999", "GET"),
     Call("api_call", "hello", "GET"),
     Call("api_call", "/requests/101", "POST"),
     Call("unknown_tool", "hello", "GET"),
     Call(NoToolName, "hello", "GET"),
     Call("create_ticket", "hello", "GET")}

\* the calls of the "api_planner" oracle
ApiPlannedCalls ==
    {Call("api_call", "/requests/101", "GET"),
     Call("api_call", "/requests/999", "GET"),
     Call("api_call", "/tickets", "GET"),
     Call("api_call", "/tickets", "POST"),
     Call("create_ticket", "hello", "GET"),
     Call("send_notification", "hello", "GET")}

ExecutionResponses(mode) ==
    CASE mode = "always_malformed" -> {[kind |-> "malformed", tool_calls |-> <<>>]}
      [] mode = "always_raise"     -> {[kind |-> "raise", tool_calls |-> <<>>]}
      [] mode = "tool_planner"     ->
            {[kind |-> k, tool_calls |-> <<>>] : k \in RaisingKinds}
            \cup {[kind |-> "object", tool_calls |-> tc] :
                    tc \in SeqsUpTo(PlannedCalls, MaxPlannedCalls)}
      [] mode = "api_planner"      ->
            {[kind |-> "object", tool_calls |-> tc] :
                    tc \in SeqsUpTo(ApiPlannedCalls, MaxPlannedCalls)}
      [] OTHER ->
            {[kind |-> k, tool_calls |-> <<>>] : k \in RaisingKinds}
            \cup {[kind |-> "object", tool_calls |-> tc] :
                    tc \in SeqsUpTo(ToolCalls, MaxToolCalls)}

(***************************************************************************)
(* intelligent_step_selection_node                                         *)
(***************************************************************************)
\* variants of EndsWorkflow that let a text outside the SOP through
EndsWorkflowSentinelOnly(next_step, steps) == next_step = WORKFLOW_COMPLETE

EndsWorkflowKeyOnly(next_step, steps) ==
    next_step = WORKFLOW_COMPLETE \/ next_step = NoText

\* line 476: the answers on which the node ends the workflow
EndsWorkflow(next_step, steps) ==
    next_step = WORKFLOW_COMPLETE \/ next_step \notin Range(steps)

\* variant of RemainingSteps that forgets to filter the completed steps
RemainingStepsUnfiltered(steps, completed) == steps

\* line 492: remaining_steps of the except branch
RemainingSteps(steps, completed) == Without(steps, Range(completed))

\* variant of Decide that falls back to the first incomplete step also when
\* the answer is the sentinel or names no step of the SOP
DecideWithFallback(r, steps, completed, cur) ==
    IF r.kind = "object" /\ ~EndsWorkflow(r.next_step, steps)
    THEN [current_step |-> r.next_step, workflow_complete |-> FALSE]
    ELSE IF RemainingSteps(steps, completed) # <<>>
         THEN [current_step |-> Head(RemainingSteps(steps, completed)),
               workflow_complete |-> FALSE]
         ELSE [current_step |-> cur, workflow_complete |-> TRUE]

\* variant of Decide whose fallback takes remaining_steps[-1]
DecideLastRemaining(r, steps, completed, cur) ==
    IF r.kind = "object"
    THEN IF EndsWorkflow(r.next_step, steps)
         THEN [current_step |-> cur, workflow_complete |-> TRUE]
         ELSE [current_step |-> r.next_step, workflow_complete |-> FALSE]
    ELSE IF RemainingSteps(steps, completed) # <<>>
         THEN [current_step |->
                  RemainingSteps(steps, completed)[Len(RemainingSteps(steps, completed))],
               workflow_complete |-> FALSE]
         ELSE [current_step |-> cur, workflow_complete |-> TRUE]

\* variant of Decide whose except branch ends the workflow without looking
\* for a remaining step
DecideRaiseCompletes(r, steps, completed, cur) ==
    IF r.kind = "object" /\ ~EndsWorkflow(r.next_step, steps)
    THEN [current_step |-> r.next_step, workflow_complete |-> FALSE]
    ELSE [current_step |-> cur, workflow_complete |-> TRUE]

\* variant of Decide that ignores the oracle and always takes the first
\* incomplete step
DecideIgnoringOracle(r, steps, completed, cur) ==
    IF RemainingSteps(steps, completed) # <<>>
    THEN [current_step |-> Head(RemainingSteps(steps, completed)),
          workflow_complete |-> FALSE]
    ELSE [current_step |-> cur, workflow_complete |-> TRUE]

\* The decision of the try/except block: the values the returned state holds
\* for current_step and workflow_complete (cur is the state's current_step,
\* which {**state, ...} carries over when the node names no step)
Decide(r, steps, completed, cur) ==
    IF r.kind = "object"
    THEN IF EndsWorkflow(r.next_step, steps)
         THEN [current_step |-> cur, workflow_complete |-> TRUE]
         ELSE [current_step |-> r.next_step, workflow_complete |-> FALSE]
    ELSE IF RemainingSteps(steps, completed) # <<>>
         THEN [current_step |-> Head(RemainingSteps(steps, completed)),
               workflow_complete |-> FALSE]
         ELSE [current_step |-> cur, workflow_complete |-> TRUE]

\* variant of AllCompleted that compares with > instead of >=
AllCompletedStrict(completed, steps) == Len(completed) > Len(steps)

\* line 421: "if len(completed_steps) >= len(available_steps)"
AllCompleted(completed, steps) == Len(completed) >= Len(steps)

\* variant of NeedsParse that parses (and resets completed_steps) every time
NeedsParseAlways(steps) == TRUE

\* line 406: "if not state.get('available_steps')"
NeedsParse(steps) == steps = <<>>

\* variant of NodeMayRun that lets one node too many run
NodeMayRunOffByOne(n, limit) == n <= limit

\* LangGraph runs a node only while the number of super-steps taken is below
\* config["recursion_limit"]
NodeMayRun(n, limit) == n < limit

\* variant of ReportFor that prints the success line however the stream ends
ReportForAlwaysSuccess(o) == "success"

\* main(), lines 693-714: "completed successfully" after the stream has
\* ended, the error message when chain.stream raises an Exception; an
\* interrupt is no Exception and passes through main() without a message
ReportFor(o) ==
    CASE o = "Complete"               -> "success"
      [] o = "IterationBoundExceeded" -> "error"
      [] OTHER                        -> "none"

\* variant of RouteFromStepSelection that always goes on to the execution
RouteAlwaysExecute(complete) == "execute"

\* route_from_step_selection
RouteFromStepSelection(complete) == IF complete THEN "end" ELSE "execute"

SelectNode ==
    /\ pc = "select"
    /\ NodeMayRun(step, recursion_limit)
    /\ LET parse     == NeedsParse(available_steps)
           steps     == IF parse THEN ParseSteps(sop_workflow) ELSE available_steps
           completed == IF parse THEN <<>> ELSE completed_steps
       IN  /\ available_steps' = steps
           /\ completed_steps' = completed
           /\ IF AllCompleted(completed, steps)
              THEN /\ workflow_complete' = TRUE
                   /\ current_step' = current_step
                   /\ last_response' = NotConsulted
              ELSE \E r \in SelectionResponses(oracle, steps) :
                     LET d == Decide(r, steps, completed, current_step) IN
                     /\ workflow_complete' = d.workflow_complete
                     /\ current_step' = d.current_step
                     /\ last_response' = r
    /\ step' = step + 1
    /\ pc' = RouteFromStepSelection(workflow_complete')
    /\ outcome' = IF workflow_complete' THEN "Complete" ELSE outcome
    /\ selected' = IF workflow_complete' THEN selected
                   ELSE Append(selected, current_step')
    /\ report' = ReportFor(outcome')
    /\ UNCHANGED <<backendVars, resolverVars,
                   sop_workflow, execution_memory, tool_results, user_context,
                   global_action_repository, recursion_limit, oracle,
                   proposed, invoked>>

(***************************************************************************)
(* llm_tool_execution_node                                                 *)
(***************************************************************************)
\* variant of MarkCompleted that forgets to record the step
MarkCompletedNever(completed, s) == completed

\* variant of MarkCompleted that appends without the membership test
MarkCompletedAlways(completed, s) == Append(completed, s)

\* variant of MarkCompleted that only completes the first step of a run
MarkCompletedFirstOnly(completed, s) ==
    IF completed = <<>> THEN <<s>> ELSE completed

\* lines 596-598 and 621-623
MarkCompleted(completed, s) ==
    IF s \in Range(completed) THEN completed ELSE Append(completed, s)

ToolNamesOf(calls) == [i \in 1..Len(calls) |-> calls[i].tool_name]

\* the entry of lines 589-593 when the try block ran through, that of lines
\* 615-619 when it raised
\* the try block of llm_tool_execution_node raises: in the oracle call or the
\* parse, in a handler, or in tc['tool_name'] of the feedback text, which is
\* evaluated after the loop and before the append
TryRaises(r, run) ==
    \/ r.kind # "object"
    \/ run.raised
    \/ \E i \in 1..Len(r.tool_calls) : r.tool_calls[i].tool_name = NoToolName

\* tool_results as the node records it after the loop: the "tickets" of a
\* GET on the tickets endpoint is self.mock_tickets itself (line 361), so it
\* shows the tickets that later calls of the loop appended
ResultsAtEnd(run) ==
    [i \in 1..Len(run.results) |->
        IF "tickets" \in DOMAIN run.results[i].result
        THEN [run.results[i] EXCEPT !.result.tickets = run.tools.mock_tickets]
        ELSE run.results[i]]

MemoryEntry(cur, r, run) ==
    IF ~TryRaises(r, run)
    THEN [action      |-> cur,
          observation |-> [results |-> ResultsAtEnd(run)],
          feedback    |-> [completed_using |-> ToolNamesOf(r.tool_calls)]]
    ELSE [action      |-> cur,
          observation |-> [error |-> "Error"],
          feedback    |-> [completed_with_error |-> TRUE]]

\* variant of MemoryAfter that records one entry per tool result
MemoryAfterPerTool(memory, entry) ==
    IF "results" \in DOMAIN entry.observation
    THEN memory \o [i \in 1..Len(entry.observation.results) |->
                       [entry EXCEPT !.observation =
                           [results |-> <<entry.observation.results[i]>>]]]
    ELSE Append(memory, entry)

\* variant of MemoryAfter in which the except branch appends nothing
MemoryAfterNormalOnly(memory, entry) ==
    IF "results" \in DOMAIN entry.observation THEN Append(memory, entry)
    ELSE memory

\* variant of MemoryAfter that keeps the new entry only
MemoryAfterReplacing(memory, entry) == <<entry>>

\* execution_memory.append(...)
MemoryAfter(memory, entry) == Append(memory, entry)

ExecuteNode ==
    /\ pc = "execute"
    /\ NodeMayRun(step, recursion_limit)
    /\ \E r \in ExecutionResponses(oracle) :
         LET run == RunToolCalls(r.tool_calls, StartOfLoop(user_context)) IN
         /\ execution_memory' =
                MemoryAfter(execution_memory, MemoryEntry(current_step, r, run))
         /\ tool_results' = IF ~TryRaises(r, run)
                            THEN [last_execution |-> ResultsAtEnd(run)]
                            ELSE tool_results
         \* on the except path too: the dict updated in place before the raise
         \* is the state's own
         /\ user_context' = run.user_context
         /\ proposed' = r.tool_calls
         /\ invoked' = run.invoked
    /\ completed_steps' = MarkCompleted(completed_steps, current_step)
    /\ step' = step + 1
    /\ pc' = "select"
    /\ UNCHANGED <<backendVars, resolverVars,
                   sop_workflow, available_steps, current_step, workflow_complete,
                   global_action_repository, recursion_limit, outcome, report,
                   oracle, last_response, selected>>

(***************************************************************************)
(* The recursion limit of chain.stream                                     *)
(***************************************************************************)
\* GraphRecursionError: a node is due but the limit is used up; main() catches
\* it and reports the error
RecursionLimitReached ==
    /\ pc \in {"select", "execute"}
    /\ ~NodeMayRun(step, recursion_limit)
    /\ pc' = "end"
    /\ outcome' = "IterationBoundExceeded"
    /\ report' = ReportFor(outcome')
    /\ UNCHANGED <<backendVars, resolverVars,
                   sop_workflow, execution_memory, available_steps,
                   completed_steps, current_step, workflow_complete,
                   tool_results, user_context, global_action_repository,
                   recursion_limit, step, oracle, last_response, selected,
                   proposed, invoked>>

\* variant of MemoryAtInterrupt that leaves the entry of the interrupted step
MemoryAtInterruptPartial(memory, cur) ==
    Append(memory, [action      |-> cur,
                    observation |-> [results |-> <<>>],
                    feedback    |-> [completed_using |-> <<>>]])

\* execution_memory when an interrupt leaves the try block at line 558 or at
\* line 576: the append of line 589 has not run, and the except clause of
\* line 611 does not catch an interrupt
MemoryAtInterrupt(memory, cur) == memory

\* an interrupt (KeyboardInterrupt) arrives while a node waits in
\* client.generate: the node returns nothing
InterruptAwaitingOracle ==
    /\ pc \in {"select", "execute"}
    /\ NodeMayRun(step, recursion_limit)
    /\ execution_memory' =
          IF pc = "execute" THEN MemoryAtInterrupt(execution_memory, current_step)
          ELSE execution_memory
    /\ pc' = "end"
    /\ outcome' = "Cancelled"
    /\ report' = ReportFor(outcome')
    /\ UNCHANGED <<backendVars, resolverVars,
                   sop_workflow, available_steps, completed_steps,
                   current_step, workflow_complete, tool_results, user_context,
                   global_action_repository, recursion_limit, step, oracle,
                   last_response, selected, proposed, invoked>>

\* an interrupt arrives while the tool loop waits in an ask_user_input call:
\* the calls before it have run, and user_context, updated in place, keeps
\* what they left
InterruptAwaitingUser ==
    /\ pc = "execute"
    /\ NodeMayRun(step, recursion_limit)
    /\ \E r \in ExecutionResponses(oracle) :
         /\ r.kind = "object"
         /\ \E i \in 1..Len(r.tool_calls) :
              LET run == RunToolCalls(SubSeq(r.tool_calls, 1, i - 1),
                                      StartOfLoop(user_context)) IN
              /\ r.tool_calls[i].tool_name = "ask_user_input"
              /\ ~run.raised
              /\ user_context' = run.user_context
              /\ proposed' = r.tool_calls
              /\ invoked' = run.invoked
    /\ execution_memory' = MemoryAtInterrupt(execution_memory, current_step)
    /\ pc' = "end"
    /\ outcome' = "Cancelled"
    /\ report' = ReportFor(outcome')
    /\ UNCHANGED <<backendVars, resolverVars,
                   sop_workflow, available_steps, completed_steps,
                   current_step, workflow_complete, tool_results,
                   global_action_repository, recursion_limit, step, oracle,
                   last_response, selected>>

(***************************************************************************)
(* backend.py: the collaborator API and its in-memory stores               *)
(***************************************************************************)
\* "if age_hours <= 72"
AgeThreshold == 72

\* the statuses of the requests of REQUESTS_DB
Statuses == {"approved", "in-progress", "disapproved"}

\* values of the query parameter status: str of the PATCH route
PatchStatuses == Statuses \cup {"escalated"}

\* manager_email: Optional[str]; None and "" are false in "if
\* request.manager_email"
NoManager == "None"
ManagerEmails == {NoManager, "", "bob.wilson@company.com"}
IsTruthy(email) == email \notin {NoManager, ""}

RequestIds == {103}
UnknownRequest == 999

NoResponse == [op |-> "none"]

\* variant of CreateTicket that numbers the tickets from 0
CreateTicketFromLen(queue, request_id, reason, priority) ==
    [ticket_id |-> Len(queue), request_id |-> request_id,
     reason |-> reason, priority |-> priority, status |-> "open"]

\* create_ticket: the Ticket it appends to TICKET_QUEUE
CreateTicket(queue, request_id, reason, priority) ==
    [ticket_id |-> Len(queue) + 1, request_id |-> request_id,
     reason |-> reason, priority |-> priority, status |-> "open"]

\* send_notification: the entry it appends to NOTIFICATIONS_LOG
SendNotification(log, recipient, request_id) ==
    [id |-> Len(log) + 1, recipient |-> recipient, request_id |-> request_id,
     status |-> "sent"]

\* variant of WithinWaitingPeriod that compares with < instead of <=
WithinWaitingPeriodStrict(age_hours) == age_hours < AgeThreshold

\* line 129: "if age_hours <= 72"
WithinWaitingPeriod(age_hours) == age_hours <= AgeThreshold

\* variant of ProcessDriveAccessSop that files no second ticket for a request
ProcessDriveAccessSopOnce(db, queue, log, id) ==
    IF id \notin DOMAIN db
    THEN [raised |-> TRUE, queue |-> queue, log |-> log,
          body |-> [detail |-> "Request ID not found."]]
    ELSE LET request == db[id] IN
         IF request.status = "approved"
         THEN [raised |-> FALSE, queue |-> queue, log |-> log,
               body |-> [message |-> "already approved", status |-> "approved"]]
         ELSE IF request.status \in {"in-progress", "disapproved"}
         THEN IF \/ WithinWaitingPeriod(request.age_hours)
                 \/ \E i \in 1..Len(queue) : queue[i].request_id = id
              THEN [raised |-> FALSE, queue |-> queue, log |-> log,
                    body |-> [message |-> "being processed",
                              status  |-> request.status]]
              ELSE LET ticket == CreateTicket(queue, id,
                                     "Drive Access Re-Approval Needed", "high")
                       notify == IsTruthy(request.manager_email)
                   IN [raised |-> FALSE,
                       queue  |-> Append(queue, ticket),
                       log    |-> IF notify
                                  THEN Append(log,
                                         SendNotification(log, request.manager_email, id))
                                  ELSE log,
                       body   |-> [message |-> "ticket created",
                                   ticket_id |-> ticket.ticket_id,
                                   notification_sent |-> notify]]
         ELSE [raised |-> FALSE, queue |-> queue, log |-> log,
               body |-> [message |-> "null"]]

\* process_drive_access_sop: the stores it leaves and what it returns; a
\* status outside the two if statements falls off the end of the function
ProcessDriveAccessSop(db, queue, log, id) ==
    IF id \notin DOMAIN db
    THEN [raised |-> TRUE, queue |-> queue, log |-> log,
          body |-> [detail |-> "Request ID not found."]]
    ELSE LET request == db[id] IN
         IF request.status = "approved"
         THEN [raised |-> FALSE, queue |-> queue, log |-> log,
               body |-> [message |-> "already approved", status |-> "approved"]]
         ELSE IF request.status \in {"in-progress", "disapproved"}
         THEN IF WithinWaitingPeriod(request.age_hours)
              THEN [raised |-> FALSE, queue |-> queue, log |-> log,
                    body |-> [message |-> "being processed",
                              status  |-> request.status]]
              ELSE LET ticket == CreateTicket(queue, id,
                                     "Drive Access Re-Approval Needed", "high")
                       notify == IsTruthy(request.manager_email)
                   IN [raised |-> FALSE,
                       queue  |-> Append(queue, ticket),
                       log    |-> IF notify
                                  THEN Append(log,
                                         SendNotification(log, request.manager_email, id))
                                  ELSE log,
                       body   |-> [message |-> "ticket created",
                                   ticket_id |-> ticket.ticket_id,
                                   notification_sent |-> notify]]
         ELSE [raised |-> FALSE, queue |-> queue, log |-> log,
               body |-> [message |-> "null"]]

\* variant of Serves in which the routes answer 200 also after a ValueError
ServesWithoutErrors(op, id, status_code, body) ==
    /\ backend_calls < MaxBackendCalls
    /\ backend_calls' = backend_calls + 1
    /\ backend_response' = [op |-> op, request_id |-> id,
                            status_code |-> 200, body |-> body]

\* the server answers one more operation
Serves(op, id, status_code, body) ==
    /\ backend_calls < MaxBackendCalls
    /\ backend_calls' = backend_calls + 1
    /\ backend_response' = [op |-> op, request_id |-> id,
                            status_code |-> status_code, body |-> body]

\* GET /sop/drive-access
DriveAccessSopEndpoint ==
    \E id \in RequestIds \cup {UnknownRequest} :
       LET out == ProcessDriveAccessSop(REQUESTS_DB, TICKET_QUEUE,
                                        NOTIFICATIONS_LOG, id) IN
       /\ Serves("drive_access_sop", id, IF out.raised THEN 404 ELSE 200, out.body)
       /\ TICKET_QUEUE' = out.queue
       /\ NOTIFICATIONS_LOG' = out.log
       /\ UNCHANGED <<workflowVars, resolverVars, REQUESTS_DB>>

\* GET /requests/{request_id}
GetRequestEndpoint ==
    \E id \in RequestIds \cup {UnknownRequest} :
       /\ IF id \in DOMAIN REQUESTS_DB
          THEN Serves("get_request", id, 200, REQUESTS_DB[id])
          ELSE Serves("get_request", id, 404, [detail |-> "Request ID not found."])
       /\ UNCHANGED <<workflowVars, resolverVars, REQUESTS_DB, TICKET_QUEUE,
                      NOTIFICATIONS_LOG>>

\* PATCH /requests/{request_id}/status and update_request_status
UpdateRequestStatusEndpoint ==
    \E id \in RequestIds \cup {UnknownRequest}, new_status \in PatchStatuses :
       /\ IF id \in DOMAIN REQUESTS_DB
          THEN /\ REQUESTS_DB' = [REQUESTS_DB EXCEPT ![id].status = new_status]
               /\ Serves("update_request_status", id, 200,
                         [new_status |-> new_status])
          ELSE /\ REQUESTS_DB' = REQUESTS_DB
               /\ Serves("update_request_status", id, 404,
                         [detail |-> "Request ID not found."])
       /\ UNCHANGED <<workflowVars, resolverVars, TICKET_QUEUE, NOTIFICATIONS_LOG>>

\* POST /tickets
CreateTicketEndpoint ==
    \E id \in RequestIds \cup {UnknownRequest} :
       /\ IF id \in DOMAIN REQUESTS_DB
          THEN LET ticket == CreateTicket(TICKET_QUEUE, id, "reason", "medium") IN
               /\ TICKET_QUEUE' = Append(TICKET_QUEUE, ticket)
               /\ Serves("create_ticket", id, 200, ticket)
          ELSE /\ TICKET_QUEUE' = TICKET_QUEUE
               /\ Serves("create_ticket", id, 404,
                         [detail |-> "Request ID not found."])
       /\ UNCHANGED <<workflowVars, resolverVars, REQUESTS_DB, NOTIFICATIONS_LOG>>

\* POST /notifications
SendNotificationEndpoint ==
    LET notification == SendNotification(NOTIFICATIONS_LOG, "recipient", UnknownRequest) IN
    /\ NOTIFICATIONS_LOG' = Append(NOTIFICATIONS_LOG, notification)
    /\ Serves("send_notification", UnknownRequest, 200, notification)
    /\ UNCHANGED <<workflowVars, resolverVars, REQUESTS_DB, TICKET_QUEUE>>

\* an hour passes: datetime.now() - request.created_at grows for every request
TimePasses ==
    /\ \A id \in DOMAIN REQUESTS_DB :
          REQUESTS_DB[id].age_hours < AgeThreshold + MaxAgeOver
    /\ REQUESTS_DB' = [id \in DOMAIN REQUESTS_DB |->
                         [REQUESTS_DB[id] EXCEPT !.age_hours = @ + 1]]
    /\ UNCHANGED <<workflowVars, resolverVars, TICKET_QUEUE, NOTIFICATIONS_LOG,
                   backend_response, backend_calls>>

\* the stores while the server has not been started
BackendNotStarted ==
    /\ REQUESTS_DB = <<>>
    /\ TICKET_QUEUE = <<>>
    /\ NOTIFICATIONS_LOG = <<>>
    /\ backend_response = NoResponse
    /\ backend_calls = 0

(***************************************************************************)
(* The step resolver (semantic matching variant)                           *)
(***************************************************************************)
\* similarity scores, as whole numbers
Scores == -1..MaxScore

Pending == [kind |-> "pending"]

\* variant of BestFrom in which an equal score replaces the current best
RECURSIVE BestFromOnTie(_, _, _)
BestFromOnTie(scores, i, best) ==
    IF i > Len(scores) THEN best
    ELSE BestFromOnTie(scores, i + 1, IF scores[i] >= scores[best] THEN i ELSE best)

\* the scan from position i on with the best entry so far: only a strictly
\* greater score replaces it
RECURSIVE BestFrom(_, _, _)
BestFrom(scores, i, best) ==
    IF i > Len(scores) THEN best
    ELSE BestFrom(scores, i + 1, IF scores[i] > scores[best] THEN i ELSE best)

\* resolve(stepText, repository), by the scores of the repository's entries
Resolve(scores) ==
    IF scores = <<>> THEN [kind |-> "ResolutionError"]
    ELSE [kind |-> "entry", index |-> BestFrom(scores, 2, 1)]

ResolveStep ==
    /\ resolved = Pending
    /\ resolved' = Resolve(similarities)
    /\ UNCHANGED <<workflowVars, backendVars, similarities>>

\* no step is being resolved
ResolverIdle == similarities = <<>> /\ resolved = Pending

(***************************************************************************)
(* Specifications                                                          *)
(***************************************************************************)
Documents == SeqsUpTo(DocTokens, MaxDocLen)

\* drive_gar, by its action names
DriveGar == <<"get_request_id", "check_request_status", "handle_approved",
              "handle_in_progress_or_disapproved_under_72",
              "create_reapproval_ticket", "inform_user_ticket_created">>

\* initial_state of main() for a document, a limit, an oracle and a repository
\* out of the given sets
WorkflowStart(docs, limits, modes, repositories) ==
    /\ sop_workflow \in docs
    /\ recursion_limit \in limits
    /\ oracle \in modes
    /\ global_action_repository \in repositories
    /\ execution_memory = <<>>
    /\ available_steps = <<>>
    /\ completed_steps = <<>>
    /\ current_step = <<>>
    /\ workflow_complete = FALSE
    /\ tool_results = <<>>
    /\ user_context = <<>>
    /\ step = 0
    /\ pc = "select"
    /\ outcome = "running"
    /\ last_response = NotConsulted
    /\ selected = <<>>
    /\ report = "none"
    /\ proposed = <<>>
    /\ invoked = <<>>

\* a run of the workflow; the collaborator API and the resolver are not used
Start(docs, limits, modes, repositories) ==
    /\ WorkflowStart(docs, limits, modes, repositories)
    /\ BackendNotStarted
    /\ ResolverIdle

\* initial_state of main(), for any document, limit and oracle
Init == Start(Documents, 1..MaxRecursionLimit, OracleModes, {DriveGar})

Next == SelectNode \/ ExecuteNode \/ RecursionLimitReached

Spec == Init /\ [][Next]_vars

\* Runs under the largest limit with an unconstrained oracle (its answers
\* include those of the constrained oracles).  The graph runtime always runs
\* the node that is due, and every oracle call returns or raises.
FairInit == Init /\ oracle = "any" /\ recursion_limit = MaxRecursionLimit

\* Runs over a two-step SOP in which the execution oracle plans tool calls
\* (under a limit that lets the run finish, and under one that cuts it)
ToolsInit ==
    Start({<<"a", NL, "b">>}, {2, MaxRecursionLimit}, {"tool_planner"}, {DriveGar})

ToolsSpec == ToolsInit /\ [][Next]_vars

FairSpec == FairInit /\ [][Next]_vars /\ WF_vars(Next)

\* runs with a repository out of the empty one and drive_gar, under an oracle
\* that fails in every call
RepoInit ==
    Start(Documents, 1..MaxRecursionLimit, {"always_malformed", "always_raise"},
          {<<>>, DriveGar})

RepoSpec == RepoInit /\ [][Next]_vars

\* runs that an interrupt may end
InterruptInit ==
    Start({<<"a", NL, "b">>}, {2, MaxRecursionLimit}, {"any"}, {DriveGar})

InterruptNext == Next \/ InterruptAwaitingOracle \/ InterruptAwaitingUser

InterruptSpec == InterruptInit /\ [][InterruptNext]_vars

\* a run of one step whose tool calls read and write the stores of LLMTools
\* (under a limit that lets the run finish, and under one that cuts it)
ApiInit == Start({<<"a">>}, {2, MaxRecursionLimit}, {"api_planner"}, {DriveGar})

ApiSpec == ApiInit /\ [][Next]_vars

\* the workflow is not run
WorkflowIdle == WorkflowStart({<<>>}, {1}, {"any"}, {DriveGar})

\* the server of backend.py with one stored request, an hour before the
\* waiting period ends
BackendInit ==
    /\ WorkflowIdle
    /\ ResolverIdle
    /\ REQUESTS_DB \in [RequestIds -> [status : Statuses,
                                        age_hours : {AgeThreshold - 1},
                                        manager_email : ManagerEmails]]
    /\ TICKET_QUEUE = <<>>
    /\ NOTIFICATIONS_LOG = <<>>
    /\ backend_response = NoResponse
    /\ backend_calls = 0

BackendNext ==
    \/ DriveAccessSopEndpoint
    \/ GetRequestEndpoint
    \/ UpdateRequestStatusEndpoint
    \/ CreateTicketEndpoint
    \/ SendNotificationEndpoint
    \/ TimePasses

BackendSpec == BackendInit /\ [][BackendNext]_vars

\* resolve for every sequence of scores up to MaxRepoLen entries
ResolveInit ==
    /\ WorkflowIdle
    /\ BackendNotStarted
    /\ similarities \in SeqsUpTo(Scores, MaxRepoLen)
    /\ resolved = Pending

ResolveSpec == ResolveInit /\ [][ResolveStep]_vars

(***************************************************************************)
(* Properties                                                              *)
(***************************************************************************)
\* The state is the one a selection has just produced: the step it chose is
\* about to be executed, or it ended the run.
JustSelected == pc = "execute" \/ (pc = "end" /\ outcome = "Complete")

StepSet == Range(available_steps)

\* positions of the SOP whose step is not completed
IncompleteIndexes ==
    {i \in 1..Len(available_steps) : available_steps[i] \notin Range(completed_steps)}

FirstIncomplete ==
    available_steps[CHOOSE i \in IncompleteIndexes : \A j \in IncompleteIndexes : i <= j]

IsPrefix(s, t) == Len(s) <= Len(t) /\ \A i \in 1..Len(s) : s[i] = t[i]

NoRepeats(s) == \A i, j \in 1..Len(s) : s[i] = s[j] => i = j

\* the distinct texts of s in order of first occurrence
RECURSIVE DistinctInOrder(_)
DistinctInOrder(s) ==
    IF s = <<>> THEN <<>>
    ELSE LET front == DistinctInOrder(SubSeq(s, 1, Len(s) - 1)) IN
         IF s[Len(s)] \in Range(front) THEN front ELSE Append(front, s[Len(s)])

Terminated == outcome \in {"Complete", "IterationBoundExceeded"}

\* C1: for every SOP and every oracle behaviour in both nodes, the run takes
\* at most recursion_limit node executions and eventually ends, as Complete
\* or as IterationBoundExceeded.
C1_Termination == [](step <= recursion_limit) /\ <>Terminated

C1_Witness ==
    /\ outcome = "IterationBoundExceeded"
    /\ step = recursion_limit
    /\ Len(execution_memory) >= 2

\* C2: the step handed to the tool-execution node is a step of the parsed
\* SOP whatever the oracle answers; no other text is selected, completed or
\* recorded in memory.
C2_SelectedInSop ==
    /\ pc = "execute" => current_step \in StepSet
    /\ Range(selected) \subseteq StepSet
    /\ \A i \in 1..Len(execution_memory) : execution_memory[i].action \in StepSet
    /\ \A i \in 1..Len(completed_steps) : completed_steps[i] \in StepSet

C2_Witness ==
    /\ pc = "execute"
    /\ last_response.kind = "object"
    /\ execution_memory # <<>>

\* C3 (as claimed): a step selected for dispatch is not in completedSteps at
\* the moment of its selection.
C3_SelectedIncomplete ==
    pc = "execute" => current_step \notin Range(completed_steps)

C5_ExceptionAbsorbed ==
    (JustSelected /\ last_response.kind \in RaisingKinds)
    => IF IncompleteIndexes # {}
       THEN /\ pc = "execute"
            /\ ~workflow_complete
            /\ current_step = FirstIncomplete
            /\ outcome = "running"
       ELSE /\ workflow_complete
            /\ outcome = "Complete"

C5_Witness ==
    /\ pc = "execute"
    /\ last_response.kind = "raise"
    /\ oracle = "any"
    /\ completed_steps # <<>>
    /\ current_step = available_steps[2]

\* C6 (as claimed): with an oracle that always returns malformed text, the
\* steps selected over the whole run are exactly the SOP's steps in SOP order.
C6_FallbackOrderExact ==
    (oracle = "always_malformed" /\ pc = "end") => selected = available_steps

\* C6 (amended): with an oracle that always returns malformed text, the steps
\* selected are the SOP's distinct step texts in order of first occurrence,
\* each once: the selected sequence is always a prefix of that order, and is
\* the whole of it when the run ends Complete.
C6_FallbackOrder ==
    oracle = "always_malformed"
    => /\ IsPrefix(selected, DistinctInOrder(available_steps))
       /\ outcome = "Complete" => selected = DistinctInOrder(available_steps)

C6_Witness ==
    /\ oracle = "always_malformed"
    /\ outcome = "Complete"
    /\ Len(selected) = 2

\* C7: with an oracle that always fails, an SOP of N distinct steps and a
\* limit that allows the 2N+1 node executions, the run ends Complete after
\* exactly N dispatches, with N memory entries and completedSteps equal to
\* the SOP's steps in SOP order.
C7_AlwaysFailingRun ==
    ( /\ oracle = "always_raise"
      /\ pc = "end"
      /\ NoRepeats(available_steps)
      /\ recursion_limit >= 2 * Len(available_steps) + 1 )
    => ( /\ outcome = "Complete"
         /\ step = 2 * Len(available_steps) + 1
         /\ Len(selected) = Len(available_steps)
         /\ Len(execution_memory) = Len(available_steps)
         /\ \A i \in 1..Len(execution_memory) :
                execution_memory[i].action = available_steps[i]
         /\ completed_steps = available_steps )

C7_Witness ==
    /\ oracle = "always_raise"
    /\ outcome = "Complete"
    /\ Len(available_steps) = 2
    /\ available_steps[1] # available_steps[2]
    /\ Len(execution_memory) = 2

C9_ProgressMonotone ==
    /\ [](Len(completed_steps) <= Len(available_steps))
    /\ [][Len(completed_steps') >= Len(completed_steps)]_vars

C9_Witness ==
    /\ pc = "select"
    /\ completed_steps # <<>>
    /\ Len(execution_memory) > Len(completed_steps)

\* C10: every text in completedSteps is the text of a line parsed from the SOP.
C10_CompletedSubset ==
    \A i \in 1..Len(completed_steps) :
        \E j \in 1..Len(ParseSteps(sop_workflow)) :
            completed_steps[i] = ParseSteps(sop_workflow)[j]

C10_Witness ==
    /\ Len(completed_steps) = 2
    /\ last_response.kind = "object"

\* a step of llm_tool_execution_node
Dispatch == pc = "execute" /\ pc' = "select"

LastEntry == execution_memory[Len(execution_memory)]

OnErrorPath(entry) == "completed_with_error" \in DOMAIN entry.feedback

\* C11: completedSteps never holds a text twice, and a dispatch of a step that
\* is already completed leaves completedSteps as it is, on the normal and on
\* the error path.
C11_IdempotentCompletion ==
    /\ [](NoRepeats(completed_steps))
    /\ [][(Dispatch /\ current_step \in Range(completed_steps))
            => completed_steps' = completed_steps]_vars

C11_Witness ==
    /\ pc = "select"
    /\ Len(execution_memory) = 2
    /\ execution_memory[1].action = execution_memory[2].action
    /\ ~OnErrorPath(execution_memory[1])
    /\ OnErrorPath(execution_memory[2])
    /\ Len(completed_steps) = 1

\* C12: a dispatch appends exactly one entry to execution memory, and its
\* action is the dispatched step, for zero, one or more proposed tool calls
\* and on both paths.
C12_OneEntryPerDispatch ==
    [][Dispatch =>
         /\ Len(execution_memory') = Len(execution_memory) + 1
         /\ execution_memory'[Len(execution_memory')].action = current_step]_vars

C12_Witness ==
    /\ pc = "select"
    /\ Len(execution_memory) = 2
    /\ Len(proposed) = 2
    /\ Len(invoked) = 2
    /\ OnErrorPath(LastEntry)
    /\ ~OnErrorPath(execution_memory[1])
    /\ execution_memory[1].observation.results = <<>>

\* C13: execution memory is append-only: across every transition the old
\* memory is a prefix of the new one.
C13_AppendOnly == [][IsPrefix(execution_memory, execution_memory')]_vars

C13_Witness ==
    /\ Len(execution_memory) = 2
    /\ execution_memory[1].action # execution_memory[2].action
    /\ OnErrorPath(execution_memory[1])
    /\ ~OnErrorPath(execution_memory[2])

\* C14 (as claimed): every dispatch makes the set of steps that are not
\* completed smaller by one.
C14_Shrinkage ==
    [][Dispatch =>
         Cardinality(StepSet \ Range(completed_steps'))
             = Cardinality(StepSet \ Range(completed_steps)) - 1]_vars

\* the names execute_tool dispatches on
RegisteredTools == {"ask_user_input", "show_message_to_user", "api_call",
                    "create_ticket", "send_notification"}

\* a call that fails without an exception: an unknown tool name, an unknown
\* endpoint, a request that is not found, an unsupported method
FailsQuietly(c) ==
    \/ c.tool_name \notin RegisteredTools
    \/ /\ c.tool_name = "api_call"
       /\ c.parameters # NotADict
       /\ \/ c.parameters \in {"hello", "/requests/999"}
          \/ c.method # "GET"

NoHandlerRaises(calls) ==
    \A i \in 1..Len(calls) :
        calls[i].tool_name \in RegisteredTools => calls[i].parameters # NotADict

\* C15 (as claimed): in a dispatch where some proposed call fails without an
\* exception and no handler raises, every proposed call is invoked once and in
\* order, the memory entry of the iteration records one result per call, with
\* an error for each failing call, and the step is completed.
C15_FailedCallRecorded ==
    (/\ execution_memory # <<>>
     /\ NoHandlerRaises(proposed)
     /\ \E i \in 1..Len(proposed) : FailsQuietly(proposed[i]))
    => /\ invoked = proposed
       /\ LastEntry.action \in Range(completed_steps)
       /\ "results" \in DOMAIN LastEntry.observation
       /\ Len(LastEntry.observation.results) = Len(proposed)
       /\ \A i \in 1..Len(proposed) :
            FailsQuietly(proposed[i]) =>
              /\ LastEntry.observation.results[i].tool_name = proposed[i].tool_name
              /\ "error" \in DOMAIN LastEntry.observation.results[i].result

\* C16: in a dispatch where no handler raises the proposed calls are invoked
\* in the order proposed, each once; with an empty proposal no tool is invoked
\* and the step is completed.
C16_InOrderOnce ==
    execution_memory # <<>> =>
       /\ NoHandlerRaises(proposed) => invoked = proposed
       /\ proposed = <<>> =>
            /\ invoked = <<>>
            /\ LastEntry.action \in Range(completed_steps)

C16_Witness ==
    /\ pc = "select"
    /\ Len(proposed) = 2
    /\ invoked = proposed
    /\ "error" \in DOMAIN
          ToolResult(NewTools, proposed[1].tool_name, proposed[1].parameters,
                     proposed[1].method)
    /\ proposed[2].tool_name = "ask_user_input"
    /\ Len(execution_memory) = 2
    /\ execution_memory[1].observation = [results |-> <<>>]

SuccessfulAsks(calls) ==
    {i \in 1..Len(calls) : /\ calls[i].tool_name = "ask_user_input"
                           /\ calls[i].parameters # NotADict}

LastOf(S) == CHOOSE i \in S : \A j \in S : j <= i

\* C17: user_context changes only through a successful ask_user_input: a
\* dispatch without one leaves it as it is, a dispatch with some leaves the
\* response and the prompt of the last of them, and no other step changes it.
C17_ContextFromLastAsk ==
    [][IF Dispatch
       THEN LET asks == SuccessfulAsks(invoked') IN
            IF asks = {}
            THEN user_context' = user_context
            ELSE LET c == invoked'[LastOf(asks)] IN
                 user_context' = [last_user_input |-> MockUserResponse(c.parameters),
                                  last_prompt     |-> c.parameters]
       ELSE user_context' = user_context]_vars

C17_Witness ==
    /\ pc = "end"
    /\ Len(execution_memory) = 2
    /\ invoked = <<Call("ask_user_input", "request id", "GET"),
                   Call("ask_user_input", "email", "GET")>>
    /\ user_context = [last_user_input |-> "user@company.com", last_prompt |-> "email"]
    /\ execution_memory[1].observation =
          [results |-> <<[tool_name  |-> "ask_user_input",
                          parameters |-> "request id",
                          result     |-> AskUserInput("request id")]>>]

\* C18: a run that the recursion limit cuts off ends with the error message
\* of main(), and the success message is only printed for a run whose
\* workflow is complete.
C18_BoundReportedAsFailure ==
    /\ (pc = "end" /\ ~workflow_complete) =>
          (outcome = "IterationBoundExceeded" /\ report = "error")
    /\ report = "success" => (workflow_complete /\ outcome = "Complete")

C18_Witness ==
    /\ pc = "end"
    /\ outcome = "IterationBoundExceeded"
    /\ report = "error"
    /\ Len(execution_memory) = 2
    /\ Cardinality(StepSet \ Range(completed_steps)) = 1

\* C19 (as claimed): a run with an empty action repository ends with
\* ResolutionError, an empty execution memory and no completed step.
C19_EmptyRepositoryFails ==
    (global_action_repository = <<>> /\ pc = "end") =>
        /\ outcome = "ResolutionError"
        /\ execution_memory = <<>>
        /\ completed_steps = <<>>

MemoryActions == {execution_memory[i].action : i \in 1..Len(execution_memory)}

\* C20: with interrupts while a node waits for the oracle or for the user,
\* every step either leaves execution memory and completed_steps as they are
\* or appends one entry for the dispatched step and leaves that step
\* completed; the steps with a memory entry are the completed steps.
C20_MemoryAndCompletedTogether ==
    /\ [](MemoryActions = Range(completed_steps))
    /\ [][\/ /\ execution_memory' = execution_memory
             /\ completed_steps' = completed_steps
          \/ /\ Len(execution_memory') = Len(execution_memory) + 1
             /\ IsPrefix(execution_memory, execution_memory')
             /\ execution_memory'[Len(execution_memory')].action = current_step
             /\ IsPrefix(completed_steps, completed_steps')
             /\ current_step \in Range(completed_steps')]_vars

C20_Witness ==
    /\ outcome = "Cancelled"
    /\ Len(execution_memory) = 1
    /\ Len(completed_steps) = 1
    /\ proposed = <<Call("ask_user_input", "request id", "GET")>>
    /\ invoked = <<>>

\* C21: selection and dispatch alternate, starting with a selection; a
\* dispatch only follows a selection that chose a step of the SOP, and after a
\* selection has ended the workflow as complete no node runs any more.
C21_StrictAlternation ==
    /\ [](workflow_complete => pc = "end")
    /\ [](Len(execution_memory) <= Len(selected)
            /\ Len(selected) <= Len(execution_memory) + 1)
    /\ [][/\ pc = "select" => pc' \in {"execute", "end"}
          /\ pc = "execute" => pc' \in {"select", "end"}
          /\ pc' = "execute" =>
                /\ pc = "select"
                /\ ~workflow_complete'
                /\ current_step' \in Range(available_steps')
                /\ selected' = Append(selected, current_step')
          /\ pc # "end"]_vars

C21_Witness ==
    /\ pc = "end"
    /\ workflow_complete
    /\ step = 5
    /\ Len(selected) = 2
    /\ Len(execution_memory) = 2
    /\ selected[1] # selected[2]

\* the tickets of the create_ticket results, in order
RECURSIVE TicketsIn(_)
TicketsIn(results) ==
    IF results = <<>> THEN <<>>
    ELSE LET r == Head(results) IN
         (IF r.tool_name = "create_ticket" THEN <<r.result.ticket>> ELSE <<>>)
            \o TicketsIn(Tail(results))

\* the tickets recorded in execution memory, in order
RECURSIVE TicketsOfRun(_)
TicketsOfRun(memory) ==
    IF memory = <<>> THEN <<>>
    ELSE (IF "results" \in DOMAIN Head(memory).observation
          THEN TicketsIn(Head(memory).observation.results) ELSE <<>>)
            \o TicketsOfRun(Tail(memory))

\* C22 (as claimed): the tickets created in one run are open and carry the
\* ids 1, 2, 3, ... in the order of their creation, also across steps.
C22_SequentialTicketIds ==
    LET tickets == TicketsOfRun(execution_memory) IN
    \A i \in 1..Len(tickets) :
        tickets[i].ticket_id = i /\ tickets[i].status = "open"

StepsAtSelection ==
    IF available_steps = <<>> THEN ParseSteps(sop_workflow) ELSE available_steps

\* a step of intelligent_step_selection_node
Selection == pc = "select" /\ step' = step + 1

\* C28: a selection that finds at least as many completed steps as steps
\* ends the workflow as complete without asking the oracle, leaves the rest
\* of the state as it is, and no dispatch follows.
C28_AllCompletedEndsRun ==
    [][(Selection /\ Len(completed_steps) >= Len(StepsAtSelection)) =>
          /\ workflow_complete'
          /\ pc' = "end"
          /\ last_response' = NotConsulted
          /\ available_steps' = StepsAtSelection
          /\ UNCHANGED <<sop_workflow, execution_memory, completed_steps,
                         current_step, tool_results, user_context,
                         global_action_repository>>]_vars

C28_Witness ==
    /\ pc = "end"
    /\ workflow_complete
    /\ last_response = NotConsulted
    /\ Len(available_steps) = 2
    /\ Len(completed_steps) = 2
    /\ Len(execution_memory) = 2

\* C29 (as claimed): for an SOP with a repeated line, the selection that
\* finds every distinct step completed ends the workflow as complete.
C29_RepeatedLinesComplete ==
    [][(/\ Selection
        /\ available_steps # <<>>
        /\ ~NoRepeats(available_steps)
        /\ StepSet \subseteq Range(completed_steps))
       => (workflow_complete' /\ pc' = "end")]_vars

\* C30: after a dispatch, whether the tools succeeded, a tool returned an
\* error, the oracle call failed or a handler raised, the dispatched step is
\* in completed_steps.
C30_DispatchedStepCompleted ==
    [][Dispatch => current_step \in Range(completed_steps')]_vars

C30_Witness ==
    /\ pc = "select"
    /\ Len(execution_memory) = 2
    /\ Len(completed_steps) = 2
    /\ OnErrorPath(LastEntry)
    /\ proposed = <<>>
    /\ ~OnErrorPath(execution_memory[1])
    /\ Len(execution_memory[1].observation.results) = 1
    /\ "error" \in DOMAIN execution_memory[1].observation.results[1].result

CallsBefore(calls, i, name) ==
    Cardinality({j \in 1..(i - 1) : calls[j].tool_name = name})

C24_TicketAndNotification ==
    [][(/\ backend_calls' = backend_calls + 1
        /\ backend_response'.op = "drive_access_sop"
        /\ backend_response'.request_id \in DOMAIN REQUESTS_DB
        /\ REQUESTS_DB[backend_response'.request_id].status = "disapproved")
       => LET id      == backend_response'.request_id
              request == REQUESTS_DB[id]
          IN IF request.age_hours > AgeThreshold
             THEN /\ TICKET_QUEUE' # TICKET_QUEUE
                  /\ IsPrefix(TICKET_QUEUE, TICKET_QUEUE')
                  /\ Len(TICKET_QUEUE') = Len(TICKET_QUEUE) + 1
                  /\ TICKET_QUEUE'[Len(TICKET_QUEUE')].request_id = id
                  /\ IsPrefix(NOTIFICATIONS_LOG, NOTIFICATIONS_LOG')
                  /\ Len(NOTIFICATIONS_LOG') = Len(NOTIFICATIONS_LOG)
                        + (IF request.manager_email \in {NoManager, ""} THEN 0 ELSE 1)
             ELSE /\ TICKET_QUEUE' = TICKET_QUEUE
                  /\ NOTIFICATIONS_LOG' = NOTIFICATIONS_LOG]_vars

C24_Witness ==
    /\ backend_response.op = "drive_access_sop"
    /\ backend_response.status_code = 200
    /\ "ticket_id" \in DOMAIN backend_response.body
    /\ REQUESTS_DB[103].status = "disapproved"
    /\ REQUESTS_DB[103].manager_email = NoManager
    /\ Len(TICKET_QUEUE) = 1
    /\ NOTIFICATIONS_LOG = <<>>

\* C25 (as claimed): the status of every stored request is one of approved,
\* in-progress and disapproved, and so is the status a GET returns.
C25_StatusOneOfThree ==
    /\ \A id \in DOMAIN REQUESTS_DB :
          REQUESTS_DB[id].status \in {"approved", "in-progress", "disapproved"}
    /\ (backend_response.op = "get_request" /\ backend_response.status_code = 200)
          => backend_response.body.status
                \in {"approved", "in-progress", "disapproved"}

\* C26: over a non-empty repository resolve returns the first entry among
\* those of greatest score, however low that score is; it fails with
\* ResolutionError exactly when the repository is empty.
C26_FirstMaximalEntry ==
    resolved.kind # "pending" =>
        IF similarities = <<>>
        THEN resolved.kind = "ResolutionError"
        ELSE /\ resolved.kind = "entry"
             /\ resolved.index \in 1..Len(similarities)
             /\ \A j \in 1..Len(similarities) :
                   /\ similarities[j] <= similarities[resolved.index]
                   /\ j < resolved.index
                        => similarities[j] < similarities[resolved.index]

C26_Witness ==
    /\ resolved.kind = "entry"
    /\ Len(similarities) = 3
    /\ similarities[1] < similarities[2]
    /\ similarities[2] = similarities[3]
    /\ similarities[2] <= 0
    /\ resolved.index = 2

\* C31: whenever the selection node is due, the steps with an entry in
\* execution memory are the completed steps, and memory has at least as many
\* entries as there are completed steps.
C31_MemoryMatchesCompleted ==
    pc = "select" =>
        /\ {execution_memory[i].action : i \in 1..Len(execution_memory)}
              = {completed_steps[i] : i \in 1..Len(completed_steps)}
        /\ Len(execution_memory) >= Len(completed_steps)

C31_Witness ==
    /\ pc = "select"
    /\ Len(execution_memory) = 2
    /\ Len(completed_steps) = 1
    /\ ~OnErrorPath(execution_memory[1])
    /\ ~OnErrorPath(execution_memory[2])
    /\ Len(available_steps) = 2

\* the calls of the latest dispatch that reached a registered handler which
\* returned
ExecutedCalls ==
    SelectSeq(invoked, LAMBDA c : /\ c.tool_name \in RegisteredTools
                                  /\ c.parameters # NotADict)

\* the observations an entry holds for calls of registered tools
ObservationsOf(entry) ==
    IF "results" \in DOMAIN entry.observation
    THEN SelectSeq(entry.observation.results,
                   LAMBDA o : o.tool_name \in RegisteredTools)
    ELSE <<>>

\* C32 (as claimed): the memory entry of a dispatch holds one observation for
\* every call whose handler ran, in the order they ran, also when a later
\* call of the step raises.
C32_EveryExecutedCallObserved ==
    execution_memory # <<>> =>
        /\ Len(ObservationsOf(LastEntry)) = Len(ExecutedCalls)
        /\ \A i \in 1..Len(ExecutedCalls) :
              /\ ObservationsOf(LastEntry)[i].tool_name = ExecutedCalls[i].tool_name
              /\ ObservationsOf(LastEntry)[i].parameters = ExecutedCalls[i].parameters

\* the lines of a document, each trimmed
TrimmedLines(doc) == [i \in 1..Len(SplitLines(doc)) |-> Strip(SplitLines(doc)[i])]

RECURSIVE DropEmpty(_)
DropEmpty(lines) ==
    IF lines = <<>> THEN <<>>
    ELSE (IF Head(lines) = <<>> THEN <<>> ELSE <<Head(lines)>>)
            \o DropEmpty(Tail(lines))

\* C33: from the first selection on the step list is the SOP's lines, trimmed
\* and without the empty ones, in document order; no later step of the run
\* changes it, the document, or takes a step out of completed_steps.
C33_StepListFixed ==
    /\ [](step > 0 => available_steps = DropEmpty(TrimmedLines(sop_workflow)))
    /\ [][/\ sop_workflow' = sop_workflow
          /\ available_steps # <<>> => available_steps' = available_steps
          /\ IsPrefix(completed_steps, completed_steps')]_vars

C33_Witness ==
    /\ pc = "end"
    /\ sop_workflow = <<SP, "a", NL>>
    /\ available_steps = << <<"a">> >>
    /\ completed_steps = available_steps
    /\ outcome = "Complete"

\* C34: a selection leaves execution memory and completed_steps as they are,
\* whether it ends the workflow, takes the oracle's step or falls back.
C34_SelectionLeavesMemory ==
    [][Selection => /\ execution_memory' = execution_memory
                    /\ completed_steps' = completed_steps]_vars

C34_Witness ==
    /\ pc = "execute"
    /\ Len(execution_memory) = 1
    /\ Len(completed_steps) = 1
    /\ last_response.kind = "malformed"
    /\ oracle = "any"
    /\ current_step \notin Range(completed_steps)

\* C35: the tickets of the queue carry the ids 1..n and the notifications of
\* the log the ids 1..m, in the order of their creation, and no operation
\* removes or renumbers an entry.
C35_SequentialIds ==
    /\ [](\A i \in 1..Len(TICKET_QUEUE) : TICKET_QUEUE[i].ticket_id = i)
    /\ [](\A i \in 1..Len(NOTIFICATIONS_LOG) : NOTIFICATIONS_LOG[i].id = i)
    /\ [][/\ IsPrefix(TICKET_QUEUE, TICKET_QUEUE')
          /\ IsPrefix(NOTIFICATIONS_LOG, NOTIFICATIONS_LOG')]_vars

C35_Witness ==
    /\ Len(TICKET_QUEUE) = 2
    /\ Len(NOTIFICATIONS_LOG) = 2
    /\ TICKET_QUEUE[1].priority = "high"
    /\ TICKET_QUEUE[2].priority = "medium"
    /\ NOTIFICATIONS_LOG[1].request_id = 103
    /\ NOTIFICATIONS_LOG[2].request_id = UnknownRequest

\* C36: GET /requests/{id}, PATCH /requests/{id}/status, POST /tickets and
\* GET /sop/drive-access for an id that is not stored answer 404 and leave
\* the requests, the tickets and the notifications as they are.
C36_UnknownRequestIs404 ==
    [][(/\ backend_calls' = backend_calls + 1
        /\ backend_response'.op \in {"get_request", "update_request_status",
                                     "create_ticket", "drive_access_sop"}
        /\ backend_response'.request_id \notin DOMAIN REQUESTS_DB)
       => /\ backend_response'.status_code = 404
          /\ REQUESTS_DB' = REQUESTS_DB
          /\ TICKET_QUEUE' = TICKET_QUEUE
          /\ NOTIFICATIONS_LOG' = NOTIFICATIONS_LOG]_vars

C36_Witness ==
    /\ backend_response.op = "create_ticket"
    /\ backend_response.request_id = UnknownRequest
    /\ backend_response.status_code = 404
    /\ Len(TICKET_QUEUE) = 1
    /\ backend_calls = 2

\* C37: processing the drive-access SOP for an approved request, or for one
\* in progress or disapproved of at most 72 hours, leaves the tickets and the
\* notifications as they are; for one in progress or disapproved of more than
\* 72 hours every processing appends one ticket, also when the request has a
\* ticket already.
C37_OneTicketPerProcessing ==
    [][(/\ backend_calls' = backend_calls + 1
        /\ backend_response'.op = "drive_access_sop"
        /\ backend_response'.request_id \in DOMAIN REQUESTS_DB
        /\ REQUESTS_DB[backend_response'.request_id].status
              \in {"approved", "in-progress", "disapproved"})
       => LET request == REQUESTS_DB[backend_response'.request_id] IN
          IF request.status = "approved" \/ request.age_hours <= AgeThreshold
          THEN UNCHANGED <<TICKET_QUEUE, NOTIFICATIONS_LOG>>
          ELSE \E ticket \in {TICKET_QUEUE'[Len(TICKET_QUEUE')]} :
                  /\ TICKET_QUEUE' = Append(TICKET_QUEUE, ticket)
                  /\ ticket.request_id = backend_response'.request_id]_vars

C37_Witness ==
    /\ backend_response.op = "drive_access_sop"
    /\ Len(TICKET_QUEUE) = 2
    /\ TICKET_QUEUE[1].request_id = 103
    /\ TICKET_QUEUE[2].request_id = 103
    /\ TICKET_QUEUE[1].priority = "high"
    /\ TICKET_QUEUE[2].priority = "high"
    /\ REQUESTS_DB[103].status = "in-progress"

====
